---- MODULE Spec2Model ----
(***************************************************************************)
(* pkg/exec: a wrapper around os/exec that configures a command through    *)
(* option functions.  The model follows the last snapshot of the package   *)
(* (src/unnamed/part_000, lines 101-311): Cmd with its initalised and      *)
(* waited flags and its before/after hooks, Start, Wait, Run, Output,      *)
(* System and the option constructors.  The embedded os/exec Cmd is the    *)
(* platform: its Start and Wait are modelled by their documented guards    *)
(* (already started, not started) and an outcome the platform chooses.     *)
(***************************************************************************)
EXTENDS Integers, Sequences, FiniteSets, TLC

(***************************************************************************)
(* Bounds of the model.                                                    *)
(***************************************************************************)
\* longest option list a caller passes to Start, Run, Output or System
MaxOpts == 2
\* longest environment the calling process hands down
MaxEnviron == 1
\* the counters of hist stop counting here
MaxCount == 2
\* how often the caller applies the one Setenv option it keeps in a variable
MaxReuse == 2

(***************************************************************************)
(* Error values.  NoErr is Go's nil error.                                 *)
(***************************************************************************)
NoErr == "nil"
ErrNotInitalised == "exec: command not initalised"
ErrWaitAlreadyCalled == "exec: Wait was already called"
ErrStdinSet == "exec: Stdin already set"
ErrStdoutSet == "exec: Stdout already set"
ErrStderrSet == "exec: Stderr already set"
ErrBeforeSet == "exec: BeforeFunc already set"
ErrAfterSet == "exec: AfterFunc already set"
\* errors of the embedded os/exec Cmd
ErrAlreadyStarted == "exec: already started"
ErrNotStarted == "exec: not started"
ErrSpawn == "fork/exec: no such file or directory"
ErrExit == "exit status 1"
\* errors returned by the caller's hooks
ErrBeforeHook == "before hook failed"
ErrAfterHook == "after hook failed"
\* (*exec.Cmd)(nil).Wait() dereferences the nil embedded pointer
PanicNilDeref == "panic: invalid memory address or nil pointer dereference"

(***************************************************************************)
(* Values of the stream fields (io.Reader / io.Writer).  NilStream is the  *)
(* nil interface, User(i) a value of the caller, OsStream(i) one of        *)
(* os.Stdin, os.Stdout, os.Stderr, Buffer(k) a bytes.Buffer local to an     *)
(* Output call.                                                            *)
(***************************************************************************)
NilStream == [kind |-> "nil", id |-> 0]
User(i) == [kind |-> "user", id |-> i]
OsStream(i) == [kind |-> "os", id |-> i]
Buffer(k) == [kind |-> "buf", id |-> k]
StreamArgs == {NilStream, User(1), User(2)}

\* hooks: the nil func and two functions of the caller
NilHook == "nil"
Hooks == {"f", "g"}
HookArgs == {NilHook} \cup Hooks

(***************************************************************************)
(* Strings of the environment are sequences of characters, so that         *)
(* strings.HasPrefix and the concatenations of Setenv are computed.        *)
(***************************************************************************)
HasPrefix(s, prefix) ==
    /\ Len(s) >= Len(prefix)
    /\ SubSeq(s, 1, Len(prefix)) = prefix

EnvKeys == {<<"K">>, <<"K", "J">>}
EnvVals == {<<"1">>, <<"2">>}
Entry(key, val) == key \o <<"=">> \o val

\* the part of an entry before its first "="
RECURSIVE KeyOf(_)
KeyOf(e) ==
    IF e = <<>> \/ Head(e) = "=" THEN <<>> ELSE <<Head(e)>> \o KeyOf(Tail(e))

\* c.Env: a nil slice, or a slice of entries
NilEnv == [isNil |-> TRUE, s |-> <<>>]
Slice(s) == [isNil |-> FALSE, s |-> s]

(***************************************************************************)
(* os.Environ(): a copy of the environment of the calling process.  The    *)
(* Go runtime keeps one entry per key (syscall.copyenv clears duplicate    *)
(* keys), so the lists the model draws from hold each key at most once.    *)
(***************************************************************************)
InheritedEntries == {Entry(k, <<"0">>) : k \in EnvKeys}
Environs ==
    {e \in UNION {[1..n -> InheritedEntries] : n \in 0..MaxEnviron} :
        \A i, j \in 1..Len(e) : KeyOf(e[i]) = KeyOf(e[j]) => i = j}

(***************************************************************************)
(* Options.  An option is a closure over its argument; the model keeps the *)
(* constructor's name and the argument.                                    *)
(***************************************************************************)
NoArg == [s |-> NilStream, h |-> NilHook, key |-> <<>>, val |-> <<>>, dir |-> ""]
StdinOpt(r) == [kind |-> "Stdin", a |-> [NoArg EXCEPT !.s = r]]
StdoutOpt(w) == [kind |-> "Stdout", a |-> [NoArg EXCEPT !.s = w]]
StderrOpt(w) == [kind |-> "Stderr", a |-> [NoArg EXCEPT !.s = w]]
BeforeFuncOpt(fn) == [kind |-> "BeforeFunc", a |-> [NoArg EXCEPT !.h = fn]]
AfterFuncOpt(fn) == [kind |-> "AfterFunc", a |-> [NoArg EXCEPT !.h = fn]]
SetenvOpt(key, val) == [kind |-> "Setenv", a |-> [NoArg EXCEPT !.key = key, !.val = val]]
DirOpt(dir) == [kind |-> "Dir", a |-> [NoArg EXCEPT !.dir = dir]]

(***************************************************************************)
(* The Cmd struct.  hasCmd says whether the embedded *exec.Cmd is non-nil; *)
(* Stdin, Stdout, Stderr, Dir, Env and Process are the embedded Cmd's      *)
(* fields (Process: "nil" before a successful platform Start, "running"    *)
(* after it, "exited" once the platform Wait has reaped the child).        *)
(***************************************************************************)
Command ==
    [initalised |-> TRUE, hasCmd |-> TRUE,
     Stdin |-> NilStream, Stdout |-> NilStream, Stderr |-> NilStream,
     Dir |-> "", Env |-> NilEnv,
     before |-> NilHook, after |-> NilHook,
     waited |-> FALSE, Process |-> "nil"]

\* a Cmd that did not come from Command: the zero value, and a literal
\* Cmd{Cmd: ...} written by a caller, who cannot set the unexported flag
ZeroCmd == [Command EXCEPT !.initalised = FALSE, !.hasCmd = FALSE]
LiteralCmd == [Command EXCEPT !.initalised = FALSE]

\* the result of a step of a call: the Cmd, the error, the events
Ret(c, err, ev) == [c |-> c, err |-> err, ev |-> ev]

\* events of a call, in the order in which they happen
NoOpt == [kind |-> "none", a |-> NoArg]
Event(ev, opt, h, err) == [ev |-> ev, opt |-> opt, h |-> h, err |-> err]

\* the events of kind k among ev
EventsOf(ev, k) == {i \in 1..Len(ev) : ev[i].ev = k}
Count(ev, k) == Cardinality(EventsOf(ev, k))
\* the call created a child process
Created(ev) == \E i \in EventsOf(ev, "Cmd.Start") : ev[i].err = NoErr
Least(S) == CHOOSE i \in S : \A j \in S : i <= j
Min(a, b) == IF a < b THEN a ELSE b

(***************************************************************************)
(* The option functions.                                                   *)
(***************************************************************************)
\* a Stdin that overwrites
Stdin_Overwrites(c, r) == Ret([c EXCEPT !.Stdin = r], NoErr, <<>>)

Stdin(c, r) ==
    IF c.Stdin # NilStream THEN Ret(c, ErrStdinSet, <<>>)
    ELSE Ret([c EXCEPT !.Stdin = r], NoErr, <<>>)

Stdout(c, w) ==
    IF c.Stdout # NilStream THEN Ret(c, ErrStdoutSet, <<>>)
    ELSE Ret([c EXCEPT !.Stdout = w], NoErr, <<>>)

Stderr(c, w) ==
    IF c.Stderr # NilStream THEN Ret(c, ErrStderrSet, <<>>)
    ELSE Ret([c EXCEPT !.Stderr = w], NoErr, <<>>)

\* a BeforeFunc that overwrites
BeforeFunc_Overwrites(c, fn) == Ret([c EXCEPT !.before = fn], NoErr, <<>>)

BeforeFunc(c, fn) ==
    IF c.before # NilHook THEN Ret(c, ErrBeforeSet, <<>>)
    ELSE Ret([c EXCEPT !.before = fn], NoErr, <<>>)

AfterFunc(c, fn) ==
    IF c.after # NilHook THEN Ret(c, ErrAfterSet, <<>>)
    ELSE Ret([c EXCEPT !.after = fn], NoErr, <<>>)

\* the loop of Setenv over c.Env from position i on, with key already
\* extended by "="
RECURSIVE SetenvFrom(_, _, _, _)
SetenvFrom(env, key, val, i) ==
    IF i > Len(env) THEN Append(env, key \o val)
    ELSE IF HasPrefix(env[i], key) THEN [env EXCEPT ![i] = key \o val]
    ELSE SetenvFrom(env, key, val, i + 1)

\* key is the variable the closure captured, as it is when the closure is
\* called
Setenv(c, key, val) ==
    Ret([c EXCEPT !.Env = Slice(SetenvFrom(c.Env.s, key \o <<"=">>, val, 1))],
        NoErr, <<>>)

\* key += "=" assigns to the captured variable: a Setenv closure that was
\* called holds the longer key from then on.  The other closures assign to
\* nothing they captured.
Captured(opt) ==
    IF opt.kind = "Setenv" THEN [opt EXCEPT !.a.key = @ \o <<"=">>] ELSE opt

\* the closure after n calls
RECURSIVE CapturedAfter(_, _)
CapturedAfter(opt, n) ==
    IF n = 0 THEN opt ELSE CapturedAfter(Captured(opt), n - 1)

Dir(c, dir) == Ret([c EXCEPT !.Dir = dir], NoErr, <<>>)

\* opt(c): calling the closure an option constructor returned
Apply(c, opt) ==
    CASE opt.kind = "Stdin" -> Stdin(c, opt.a.s)
      [] opt.kind = "Stdout" -> Stdout(c, opt.a.s)
      [] opt.kind = "Stderr" -> Stderr(c, opt.a.s)
      [] opt.kind = "BeforeFunc" -> BeforeFunc(c, opt.a.h)
      [] opt.kind = "AfterFunc" -> AfterFunc(c, opt.a.h)
      [] opt.kind = "Setenv" -> Setenv(c, opt.a.key, opt.a.val)
      [] opt.kind = "Dir" -> Dir(c, opt.a.dir)

\* a default pass that copies the environment every time
applyDefaultOptions_Always(c, environ) ==
    Ret([c EXCEPT !.Env = Slice(environ)], NoErr, <<>>)

applyDefaultOptions(c, environ) ==
    IF c.Env.isNil THEN Ret([c EXCEPT !.Env = Slice(environ)], NoErr, <<>>)
    ELSE Ret(c, NoErr, <<>>)

\* an applyOptions that goes on after a failing option and returns the first
\* error at the end
RECURSIVE applyOptions_GoesOn(_, _)
applyOptions_GoesOn(c, opts) ==
    IF opts = <<>> THEN Ret(c, NoErr, <<>>)
    ELSE LET r == Apply(c, Head(opts))
             e == Event("opt", Head(opts), NilHook, r.err)
             rest == applyOptions_GoesOn(r.c, Tail(opts))
         IN  Ret(rest.c, IF r.err # NoErr THEN r.err ELSE rest.err, <<e>> \o rest.ev)

RECURSIVE applyOptions(_, _)
applyOptions(c, opts) ==
    IF opts = <<>> THEN Ret(c, NoErr, <<>>)
    ELSE LET r == Apply(c, Head(opts))
             e == Event("opt", Head(opts), NilHook, r.err)
         IN  IF r.err # NoErr THEN Ret(r.c, r.err, <<e>>)
             ELSE LET rest == applyOptions(r.c, Tail(opts))
                  IN  Ret(rest.c, rest.err, <<e>> \o rest.ev)

(***************************************************************************)
(* What the caller's hooks and the platform answer when a call reaches     *)
(* them: the error the before-hook returns, the error of process creation, *)
(* the error of the platform wait (the child's exit status), the error the *)
(* after-hook returns, and whether the child wrote to its standard output. *)
(***************************************************************************)
Quiet == [before |-> NoErr, spawn |-> NoErr, wait |-> NoErr, after |-> NoErr, out |-> ""]
Worlds ==
    [before : {NoErr, ErrBeforeHook}, spawn : {NoErr, ErrSpawn},
     wait : {NoErr, ErrExit}, after : {NoErr, ErrAfterHook}, out : {"", "hello"}]

(***************************************************************************)
(* The embedded os/exec Cmd.  Start refuses a Cmd whose Process is set and *)
(* otherwise creates the child or fails; Wait refuses a Cmd that was not   *)
(* started or was already waited for, and otherwise reaps the child and    *)
(* returns its exit error.  A nil embedded Cmd makes the call panic.       *)
(***************************************************************************)
CmdStart(c, world) ==
    IF c.Process # "nil"
    THEN Ret(c, ErrAlreadyStarted, <<Event("Cmd.Start", NoOpt, NilHook, ErrAlreadyStarted)>>)
    ELSE IF world.spawn # NoErr
    THEN Ret(c, world.spawn, <<Event("Cmd.Start", NoOpt, NilHook, world.spawn)>>)
    ELSE Ret([c EXCEPT !.Process = "running"], NoErr,
             <<Event("Cmd.Start", NoOpt, NilHook, NoErr)>>)

CmdWait(c, world) ==
    IF ~c.hasCmd
    THEN Ret(c, PanicNilDeref, <<Event("Cmd.Wait", NoOpt, NilHook, PanicNilDeref)>>)
    ELSE IF c.Process = "nil"
    THEN Ret(c, ErrNotStarted, <<Event("Cmd.Wait", NoOpt, NilHook, ErrNotStarted)>>)
    ELSE IF c.Process = "exited"
    THEN Ret(c, ErrWaitAlreadyCalled,
             <<Event("Cmd.Wait", NoOpt, NilHook, ErrWaitAlreadyCalled)>>)
    ELSE Ret([c EXCEPT !.Process = "exited"], world.wait,
             <<Event("Cmd.Wait", NoOpt, NilHook, world.wait)>>)

(***************************************************************************)
(* The methods of Cmd.                                                     *)
(***************************************************************************)
\* a before-hook whose error is not looked at
Before_ErrorDropped(c, world) ==
    IF c.before # NilHook
    THEN Ret(c, NoErr, <<Event("before", NoOpt, c.before, world.before)>>)
    ELSE Ret(c, NoErr, <<>>)

\* the call of the before-hook in Start
Before(c, world) ==
    IF c.before # NilHook
    THEN Ret(c, world.before, <<Event("before", NoOpt, c.before, world.before)>>)
    ELSE Ret(c, NoErr, <<>>)

\* a Start that calls the before-hook ahead of the caller's options
Configure_HookFirst(c, opts, environ, world) ==
    LET d == applyDefaultOptions(c, environ)
        dev == <<Event("default", NoOpt, NilHook, d.err)>>
        b == Before(d.c, world)
    IN  IF b.err # NoErr THEN Ret(b.c, b.err, dev \o b.ev)
        ELSE
        LET o == applyOptions(b.c, opts)
        IN  IF o.err # NoErr THEN Ret(o.c, o.err, dev \o b.ev \o o.ev)
            ELSE LET p == CmdStart(o.c, world)
                 IN  Ret(p.c, p.err, dev \o b.ev \o o.ev \o p.ev)

\* Start after its check of c.initalised
Configure(c, opts, environ, world) ==
    LET d == applyDefaultOptions(c, environ)
        dev == <<Event("default", NoOpt, NilHook, d.err)>>
    IN  IF d.err # NoErr THEN Ret(d.c, d.err, dev)
        ELSE
        LET o == applyOptions(d.c, opts)
        IN  IF o.err # NoErr THEN Ret(o.c, o.err, dev \o o.ev)
            ELSE
            LET b == Before(o.c, world)
            IN  IF b.err # NoErr THEN Ret(b.c, b.err, dev \o o.ev \o b.ev)
                ELSE LET p == CmdStart(b.c, world)
                     IN  Ret(p.c, p.err, dev \o o.ev \o b.ev \o p.ev)

\* a Start that goes on without looking at c.initalised
Start_Unguarded(c, opts, environ, world) == Configure(c, opts, environ, world)

\* a Start that returns nil whatever c.Cmd.Start() returned
Start_DropsError(c, opts, environ, world) ==
    LET r == IF ~c.initalised THEN Ret(c, ErrNotInitalised, <<>>)
             ELSE Configure(c, opts, environ, world)
    IN  IF EventsOf(r.ev, "Cmd.Start") # {} THEN Ret(r.c, NoErr, r.ev) ELSE r

\* a Start that hands the Cmd back as it found it when it fails
Start_RollsBack(c, opts, environ, world) ==
    LET r == IF ~c.initalised THEN Ret(c, ErrNotInitalised, <<>>)
             ELSE Configure(c, opts, environ, world)
    IN  IF r.err # NoErr THEN Ret(c, r.err, r.ev) ELSE r

Start(c, opts, environ, world) ==
    IF ~c.initalised THEN Ret(c, ErrNotInitalised, <<>>)
    ELSE Configure(c, opts, environ, world)

\* a Wait that calls the after-hook only when c.Cmd.Wait() returned nil
Waiting_HookOnSuccess(c, world) ==
    LET p == CmdWait([c EXCEPT !.waited = TRUE], world)
    IN  IF p.c.after = NilHook \/ p.err # NoErr THEN p
        ELSE Ret(p.c, world.after, p.ev \o <<Event("after", NoOpt, p.c.after, world.after)>>)

\* a deferred function that lets the after-hook's error win
Waiting_HookWins(c, world) ==
    LET p == CmdWait([c EXCEPT !.waited = TRUE], world)
    IN  IF p.c.after = NilHook THEN p
        ELSE LET aev == <<Event("after", NoOpt, p.c.after, world.after)>>
             IN  IF p.err = PanicNilDeref THEN Ret(p.c, p.err, p.ev \o aev)
                 ELSE IF world.after # NoErr THEN Ret(p.c, world.after, p.ev \o aev)
                 ELSE Ret(p.c, p.err, p.ev \o aev)

\* Wait after its check of c.waited.  The deferred function runs when
\* c.Cmd.Wait() returns and when it panics, and replaces a nil result by the
\* after-hook's.
Waiting(c, world) ==
    LET p == CmdWait([c EXCEPT !.waited = TRUE], world)
    IN  IF p.c.after = NilHook THEN p
        ELSE LET aev == <<Event("after", NoOpt, p.c.after, world.after)>>
             IN  IF p.err = PanicNilDeref THEN Ret(p.c, p.err, p.ev \o aev)
                 ELSE IF p.err = NoErr THEN Ret(p.c, world.after, p.ev \o aev)
                 ELSE Ret(p.c, p.err, p.ev \o aev)

\* a Wait that goes on without looking at c.waited
Wait_Unguarded(c, world) == Waiting(c, world)

Wait(c, world) ==
    IF c.waited THEN Ret(c, ErrWaitAlreadyCalled, <<>>)
    ELSE Waiting(c, world)

\* a Run that calls Wait also when Start failed
Run_AlwaysWaits(c, opts, environ, world) ==
    LET s == Start(c, opts, environ, world)
        w == Wait(s.c, world)
    IN  Ret(w.c, IF s.err # NoErr THEN s.err ELSE w.err, s.ev \o w.ev)

Run(c, opts, environ, world) ==
    LET s == Start(c, opts, environ, world)
    IN  IF s.err # NoErr THEN s
        ELSE LET w == Wait(s.c, world)
             IN  Ret(w.c, w.err, s.ev \o w.ev)

\* an Output that applies its capture option after the caller's options
Output_Appends(c, opts, b, environ, world) ==
    Run(c, opts \o <<StdoutOpt(b)>>, environ, world)

\* Output with b the buffer of this call
Output(c, opts, b, environ, world) ==
    Run(c, <<StdoutOpt(b)>> \o opts, environ, world)

System(opts, environ, world) ==
    Run(Command,
        <<StdinOpt(OsStream(0)), StdoutOpt(OsStream(1)), StderrOpt(OsStream(2))>> \o opts,
        environ, world)

(***************************************************************************)
(* The caller.  A behaviour follows one Cmd through the calls made on it.  *)
(* menu is the set of options this caller builds its option lists from,    *)
(* environ what os.Environ() returns in this process.  pc is the caller's  *)
(* position: "idle" between calls, "returned" when a call has just come    *)
(* back, with call recording what the call was, what it returned and the   *)
(* events it went through.  hist counts over the whole life of the Cmd.    *)
(* The options of menu are built anew for every call (c.Start(Dir("/tmp")));*)
(* held is an option the caller built once and keeps in a variable, to     *)
(* pass it wherever it likes (o := Setenv("K", "3"); c.Start(o, o)), or     *)
(* NoOpt for a caller that keeps none.                                     *)
(***************************************************************************)
VARIABLES cmd, environ, menu, held, pc, call, hist

vars == <<cmd, environ, menu, held, pc, call, hist>>

\* the caller that keeps an option
ReuseMenu == {StdinOpt(User(2))}
HeldOpt == SetenvOpt(<<"K">>, <<"3">>)
HeldFor(m) == IF m = ReuseMenu THEN {HeldOpt} ELSE {NoOpt}

Menus ==
    { {StdinOpt(v) : v \in StreamArgs},
      {StdoutOpt(v) : v \in StreamArgs},
      {StderrOpt(v) : v \in StreamArgs},
      {BeforeFuncOpt(h) : h \in HookArgs},
      {AfterFuncOpt(h) : h \in HookArgs},
      {SetenvOpt(<<"K">>, v) : v \in EnvVals} \cup {SetenvOpt(<<"K", "J">>, <<"1">>)},
      {StdinOpt(User(1)), DirOpt("/tmp"), SetenvOpt(<<"K">>, <<"1">>)},
      {BeforeFuncOpt("f"), AfterFuncOpt("g"), DirOpt("/var")},
      {StdoutOpt(User(1)), BeforeFuncOpt("f"), DirOpt("/tmp")},
      ReuseMenu }

\* the environment matters to the callers that use Setenv
UsesSetenv(m) == \E o \in m : o.kind = "Setenv"
EnvironsFor(m) == IF UsesSetenv(m) THEN Environs ELSE {<<Entry(<<"K">>, <<"0">>)>>}

OptLists(m) == UNION {[1..n -> m] : n \in 0..MaxOpts}

\* the places of list before place i that hold the closure h
Earlier(list, h, i) == {j \in 1..(i - 1) : list[j] = h}

\* the options of list as they are when the call comes to apply them: the
\* kept closure h has been called once more at each of its earlier places
Resolve(list, h) ==
    [i \in 1..Len(list) |->
        IF list[i] = h THEN CapturedAfter(h, Cardinality(Earlier(list, h, i)))
        ELSE list[i]]

\* the option lists the caller passes
Passed ==
    {Resolve(l, held) :
        l \in {l \in OptLists(menu \cup ({held} \ {NoOpt})) :
                 Len(held.a.key) + Cardinality(Earlier(l, held, Len(l) + 1))
                     <= Len(HeldOpt.a.key) + MaxReuse}}

\* the calls of the kept closure h among ev, and h after them
HeldApplied(ev, h) ==
    {i \in EventsOf(ev, "opt") :
        /\ h # NoOpt
        /\ ev[i].opt.kind = h.kind
        /\ ev[i].opt.a.val = h.a.val}
Kept(h, ev) == CapturedAfter(h, Cardinality(HeldApplied(ev, h)))

\* the answers of world that the call did not ask for are left at their
\* defaults, so that one run of a call is one transition
Used(ev, world, out) ==
    /\ world.before # NoErr => EventsOf(ev, "before") # {}
    /\ world.spawn # NoErr => \E i \in EventsOf(ev, "Cmd.Start") : ev[i].err = world.spawn
    /\ world.wait # NoErr => \E i \in EventsOf(ev, "Cmd.Wait") : ev[i].err = world.wait
    /\ world.after # NoErr => EventsOf(ev, "after") # {}
    /\ world.out = out

\* the worlds worth trying for a call that goes through ev when every hook
\* and the platform answer nil: only there can a hook or the platform be
\* asked at all
Asked(ev, mayWrite) ==
    {w \in Worlds :
        /\ w.before # NoErr => EventsOf(ev, "before") # {}
        /\ w.spawn # NoErr => Created(ev)
        /\ w.wait # NoErr => \E i \in EventsOf(ev, "Cmd.Wait") : ev[i].err = NoErr
        /\ w.after # NoErr => EventsOf(ev, "after") # {}
        /\ w.out # "" => mayWrite}

StreamKinds == {"Stdin", "Stdout", "Stderr"}
HookKinds == {"BeforeFunc", "AfterFunc"}
NoStream == [kind |-> "none", id |-> 0]
NoHook == "none"

\* the applications of an option of kind k among ev, and those with an
\* argument other than nil
Applied(ev, k) == {i \in EventsOf(ev, "opt") : ev[i].opt.kind = k}
AppliedStream(ev, k) == {i \in Applied(ev, k) : ev[i].opt.a.s # NilStream}
AppliedHook(ev, k) == {i \in Applied(ev, k) : ev[i].opt.a.h # NilHook}

(***************************************************************************)
(* hist, the record of the Cmd's life: the children created, the calls of  *)
(* Wait, of the platform wait and of the after-hook, whether Output was    *)
(* called, the hooks invoked,                                              *)
(* and for each stream and hook option the argument of its first           *)
(* application (first) and of its first application with an argument       *)
(* other than nil (firstSet).                                              *)
(***************************************************************************)
InitHist ==
    [created |-> 0, output |-> FALSE, waitCalls |-> 0, cmdWaits |-> 0, afterCalls |-> 0,
     beforeInvoked |-> {}, afterInvoked |-> {},
     firstStream |-> [k \in StreamKinds |-> NoStream],
     firstStreamSet |-> [k \in StreamKinds |-> NoStream],
     firstHook |-> [k \in HookKinds |-> NoHook],
     firstHookSet |-> [k \in HookKinds |-> NoHook]]

\* hist after a call on cmd that went through ev and called Wait iff waitCalled
Record(h, ev, waitCalled) ==
    [created |-> Min(MaxCount, h.created + Cardinality({i \in EventsOf(ev, "Cmd.Start") : ev[i].err = NoErr})),
     output |-> h.output,
     waitCalls |-> Min(MaxCount, h.waitCalls + (IF waitCalled THEN 1 ELSE 0)),
     cmdWaits |-> Min(MaxCount, h.cmdWaits + Count(ev, "Cmd.Wait")),
     afterCalls |-> Min(MaxCount, h.afterCalls + Count(ev, "after")),
     beforeInvoked |-> h.beforeInvoked \cup {ev[i].h : i \in EventsOf(ev, "before")},
     afterInvoked |-> h.afterInvoked \cup {ev[i].h : i \in EventsOf(ev, "after")},
     firstStream |->
        [k \in StreamKinds |->
            IF h.firstStream[k] = NoStream /\ Applied(ev, k) # {}
            THEN ev[Least(Applied(ev, k))].opt.a.s ELSE h.firstStream[k]],
     firstStreamSet |->
        [k \in StreamKinds |->
            IF h.firstStreamSet[k] = NoStream /\ AppliedStream(ev, k) # {}
            THEN ev[Least(AppliedStream(ev, k))].opt.a.s ELSE h.firstStreamSet[k]],
     firstHook |->
        [k \in HookKinds |->
            IF h.firstHook[k] = NoHook /\ Applied(ev, k) # {}
            THEN ev[Least(Applied(ev, k))].opt.a.h ELSE h.firstHook[k]],
     firstHookSet |->
        [k \in HookKinds |->
            IF h.firstHookSet[k] = NoHook /\ AppliedHook(ev, k) # {}
            THEN ev[Least(AppliedHook(ev, k))].opt.a.h ELSE h.firstHookSet[k]]]

NoCall ==
    [op |-> "none", opts |-> <<>>, err |-> NoErr, out |-> "", ev |-> <<>>,
     pre |-> Command, post |-> Command, buf |-> NilStream, prehist |-> InitHist]

Called(op, opts, r, out, b) ==
    [op |-> op, opts |-> opts, err |-> r.err, out |-> out, ev |-> r.ev,
     pre |-> cmd, post |-> r.c, buf |-> b, prehist |-> hist]

Init ==
    /\ cmd \in {Command, ZeroCmd, LiteralCmd}
    /\ menu \in Menus
    /\ environ \in EnvironsFor(menu)
    /\ held \in HeldFor(menu)
    /\ pc = "idle"
    /\ call = NoCall
    /\ hist = InitHist

CallStart ==
    /\ pc = "idle"
    /\ \E opts \in Passed :
          \E world \in Asked(Start(cmd, opts, environ, Quiet).ev, FALSE) :
          \E r \in {Start(cmd, opts, environ, world)} :
              /\ Used(r.ev, world, "")
              /\ cmd' = r.c
              /\ call' = Called("Start", opts, r, "", NilStream)
              /\ hist' = Record(hist, r.ev, FALSE)
              /\ held' = Kept(held, r.ev)
    /\ pc' = "returned"
    /\ UNCHANGED <<environ, menu>>

CallWait ==
    /\ pc = "idle"
    /\ \E world \in Asked(Wait(cmd, Quiet).ev, FALSE) :
          \E r \in {Wait(cmd, world)} :
              /\ Used(r.ev, world, "")
              /\ cmd' = r.c
              /\ call' = Called("Wait", <<>>, r, "", NilStream)
              /\ hist' = Record(hist, r.ev, TRUE)
    /\ pc' = "returned"
    /\ UNCHANGED <<environ, menu, held>>

CallRun ==
    /\ pc = "idle"
    /\ \E opts \in Passed :
          \E world \in Asked(Run(cmd, opts, environ, Quiet).ev, FALSE) :
          \E r \in {Run(cmd, opts, environ, world)} :
              /\ Used(r.ev, world, "")
              /\ cmd' = r.c
              /\ call' = Called("Run", opts, r, "", NilStream)
              /\ hist' = Record(hist, r.ev, Created(r.ev))
              /\ held' = Kept(held, r.ev)
    /\ pc' = "returned"
    /\ UNCHANGED <<environ, menu>>

\* b.Bytes(): what the child wrote into this call's buffer, if the call
\* created a child bound to it and waited for it
Bytes(r, b, world) ==
    IF Created(r.ev) /\ r.c.Stdout = b /\ r.c.Process = "exited" THEN world.out ELSE ""

\* var b bytes.Buffer: a buffer no field of the Cmd holds yet
NewBuffer(c) == IF c.Stdout = Buffer(1) THEN Buffer(2) ELSE Buffer(1)

CallOutput ==
    /\ pc = "idle"
    /\ \E opts \in Passed :
          \E b \in {NewBuffer(cmd)} :
          \E world \in Asked(Output(cmd, opts, b, environ, Quiet).ev, TRUE) :
          \E r \in {Output(cmd, opts, b, environ, world)} :
              /\ Used(r.ev, world, Bytes(r, b, world))
              /\ cmd' = r.c
              /\ call' = Called("Output", opts, r, Bytes(r, b, world), b)
              /\ hist' = [Record(hist, r.ev, Created(r.ev))
                             EXCEPT !.output = TRUE]
              /\ held' = Kept(held, r.ev)
    /\ pc' = "returned"
    /\ UNCHANGED <<environ, menu>>

\* System works on a Cmd of its own, which call.post shows.  Nothing of the
\* caller's Cmd enters the call, so the caller makes it before using its Cmd.
CallSystem ==
    /\ pc = "idle"
    /\ hist = InitHist
    /\ cmd \in {Command, ZeroCmd, LiteralCmd}
    /\ \E opts \in Passed :
          \E world \in Asked(System(opts, environ, Quiet).ev, FALSE) :
          \E r \in {System(opts, environ, world)} :
              /\ Used(r.ev, world, "")
              /\ call' = [Called("System", opts, r, "", NilStream)
                             EXCEPT !.pre = Command, !.prehist = InitHist]
              /\ held' = Kept(held, r.ev)
    /\ pc' = "returned"
    /\ UNCHANGED <<cmd, environ, menu, hist>>

\* the caller takes the result and goes on
Return ==
    /\ pc = "returned"
    /\ pc' = "idle"
    /\ call' = NoCall
    /\ UNCHANGED <<cmd, environ, menu, held, hist>>

Next ==
    \/ CallStart
    \/ CallWait
    \/ CallRun
    \/ CallOutput
    \/ CallSystem
    \/ Return

Spec == Init /\ [][Next]_vars

(***************************************************************************)
(* Properties.  They are stated on the state in which a call has just      *)
(* returned: call.pre is the Cmd before the call, call.post the Cmd after  *)
(* it, call.prehist the record of the Cmd's life before the call.          *)
(***************************************************************************)
Returned(ops) == pc = "returned" /\ call.op \in ops
Starters == {"Start", "Run", "Output"}
\* the call called Wait: it is a Wait, or a Run or Output whose Start succeeded
WaitCalled == call.op = "Wait" \/ (call.op \in {"Run", "Output", "System"} /\ Created(call.ev))

\* C1: Start, Run and Output on a Cmd that did not come from Command return
\* the not-initalised error, and the call goes through no event (no default
\* option, no option of the caller, no before-hook, no process creation) and
\* leaves the Cmd as it was.
C1_NotInitalised ==
    (Returned(Starters) /\ ~call.pre.initalised)
        => /\ call.err = ErrNotInitalised
           /\ call.ev = <<>>
           /\ call.post = call.pre
           /\ cmd = call.pre

C1_Witness ==
    /\ Returned({"Output"})
    /\ ~call.pre.initalised
    /\ call.opts # <<>>
    /\ call.err = ErrNotInitalised

\* C2: a Cmd gets at most one child process: over its life at most one is
\* created, and once a Start has created one, every later Start, Run or
\* Output returns an error and creates none.
C2_StartedAtMostOnce ==
    /\ hist.created <= 1
    /\ (Returned(Starters) /\ call.prehist.created >= 1)
          => /\ call.err # NoErr
             /\ ~Created(call.ev)

C2_Witness ==
    /\ Returned({"Start"})
    /\ call.prehist.created = 1
    /\ call.err = ErrAlreadyStarted

\* C3: every call of Wait after the first returns the already-waited error
\* and goes through no event (no platform wait, no after-hook), whatever the
\* first Wait returned.
C3_SecondWait ==
    /\ (Returned({"Wait"}) /\ call.prehist.waitCalls >= 1)
          => /\ call.err = ErrWaitAlreadyCalled
             /\ call.ev = <<>>
             /\ cmd = call.pre
    /\ (Returned({"Run", "Output"}) /\ call.prehist.waitCalls >= 1 /\ WaitCalled)
          => /\ call.err = ErrWaitAlreadyCalled
             /\ EventsOf(call.ev, "Cmd.Wait") = {}
             /\ EventsOf(call.ev, "after") = {}

C3_Witness ==
    /\ Returned({"Wait"})
    /\ call.prehist.waitCalls >= 1
    /\ call.pre.after # NilHook
    /\ call.pre.Process = "running"
    /\ call.err = ErrWaitAlreadyCalled

\* the error of a stream or hook option that finds its field set
AlreadySet(k) ==
    CASE k = "Stdin" -> ErrStdinSet
      [] k = "Stdout" -> ErrStdoutSet
      [] k = "Stderr" -> ErrStderrSet
      [] k = "BeforeFunc" -> ErrBeforeSet
      [] k = "AfterFunc" -> ErrAfterSet

\* the argument of the first application of stream option k before event i
\* of the call, in an earlier call or earlier in this one; NoStream if none
FirstStream(k, i) ==
    IF call.prehist.firstStream[k] # NoStream THEN call.prehist.firstStream[k]
    ELSE IF \E j \in Applied(call.ev, k) : j < i
    THEN call.ev[Least(Applied(call.ev, k))].opt.a.s
    ELSE NoStream

\* the same among the applications with an argument other than nil
FirstStreamSet(k, i) ==
    IF call.prehist.firstStreamSet[k] # NoStream THEN call.prehist.firstStreamSet[k]
    ELSE IF \E j \in AppliedStream(call.ev, k) : j < i
    THEN call.ev[Least(AppliedStream(call.ev, k))].opt.a.s
    ELSE NoStream

\* C4: for each of Stdin, Stdout and Stderr and a value a other than nil:
\* once the option was applied with a, every later application, in the same
\* list or in a later call, fails with the already-set error, and the field
\* holds a afterwards.
C4_StreamSetOnce ==
    pc = "returned" =>
        \A k \in StreamKinds : \A i \in Applied(call.ev, k) :
            FirstStreamSet(k, i) # NoStream
                => /\ call.ev[i].err = AlreadySet(k)
                   /\ call.err = AlreadySet(k)
                   /\ call.post[k] = FirstStreamSet(k, i)

\* C4 as claimed, for any value a, nil included
C4_AsClaimed ==
    pc = "returned" =>
        \A k \in StreamKinds : \A i \in Applied(call.ev, k) :
            FirstStream(k, i) # NoStream
                => /\ call.ev[i].err = AlreadySet(k)
                   /\ call.post[k] = FirstStream(k, i)

\* a later call applies Stderr with another value than the one set, and fails
C4_Witness ==
    /\ Returned(Starters)
    /\ call.prehist.firstStreamSet["Stderr"] = User(1)
    /\ \E i \in Applied(call.ev, "Stderr") :
          /\ call.ev[i].opt.a.s = User(2)
          /\ call.ev[i].err = ErrStderrSet
    /\ cmd.Stderr = User(1)

\* the same for the hook options
FirstHook(k, i) ==
    IF call.prehist.firstHook[k] # NoHook THEN call.prehist.firstHook[k]
    ELSE IF \E j \in Applied(call.ev, k) : j < i
    THEN call.ev[Least(Applied(call.ev, k))].opt.a.h
    ELSE NoHook

FirstHookSet(k, i) ==
    IF call.prehist.firstHookSet[k] # NoHook THEN call.prehist.firstHookSet[k]
    ELSE IF \E j \in AppliedHook(call.ev, k) : j < i
    THEN call.ev[Least(AppliedHook(call.ev, k))].opt.a.h
    ELSE NoHook

HookField(c, k) == IF k = "BeforeFunc" THEN c.before ELSE c.after

\* C5: for BeforeFunc and AfterFunc and a hook other than nil: once the
\* option was applied with it, every later application fails with the
\* already-set error and leaves the hook registered, and over the life of the
\* Cmd no other before-hook (after-hook) is invoked.
C5_HookSetOnce ==
    /\ pc = "returned" =>
          \A k \in HookKinds : \A i \in Applied(call.ev, k) :
              FirstHookSet(k, i) # NoHook
                  => /\ call.ev[i].err = AlreadySet(k)
                     /\ call.err = AlreadySet(k)
                     /\ HookField(call.post, k) = FirstHookSet(k, i)
    /\ hist.beforeInvoked \subseteq {hist.firstHookSet["BeforeFunc"]}
    /\ hist.afterInvoked \subseteq {hist.firstHookSet["AfterFunc"]}

\* C5 as claimed, for any hook, nil included
C5_AsClaimed ==
    /\ pc = "returned" =>
          \A k \in HookKinds : \A i \in Applied(call.ev, k) :
              FirstHook(k, i) # NoHook
                  => /\ call.ev[i].err = AlreadySet(k)
                     /\ HookField(call.post, k) = FirstHook(k, i)
    /\ hist.beforeInvoked \subseteq {hist.firstHook["BeforeFunc"]}
    /\ hist.afterInvoked \subseteq {hist.firstHook["AfterFunc"]}

\* f was registered and invoked, and a later call that tries g fails
C5_Witness ==
    /\ Returned(Starters)
    /\ call.prehist.beforeInvoked = {"f"}
    /\ \E i \in Applied(call.ev, "BeforeFunc") :
          /\ call.ev[i].opt.a.h = "g"
          /\ call.ev[i].err = ErrBeforeSet
    /\ cmd.before = "f"

\* every option of the call applied without error and the before-hook then
\* returned an error
BeforeFailed ==
    /\ \A i \in EventsOf(call.ev, "opt") : call.ev[i].err = NoErr
    /\ \E i \in EventsOf(call.ev, "before") : call.ev[i].err # NoErr

C7_WaitPrecedence ==
    (pc = "returned" /\ WaitCalled /\ call.prehist.waitCalls = 0
        /\ call.post.after # NilHook)
        => \E i, j \in 1..Len(call.ev) :
              /\ EventsOf(call.ev, "Cmd.Wait") = {i}
              /\ EventsOf(call.ev, "after") = {j}
              /\ i < j
              /\ call.err = IF call.ev[i].err # NoErr THEN call.ev[i].err
                            ELSE call.ev[j].err

\* the child exits with an error, the after-hook fails too, and Wait returns
\* the child's error
C7_Witness ==
    /\ Returned({"Wait"})
    /\ call.prehist.waitCalls = 0
    /\ \E i \in EventsOf(call.ev, "Cmd.Wait") : call.ev[i].err = ErrExit
    /\ \E j \in EventsOf(call.ev, "after") : call.ev[j].err = ErrAfterHook
    /\ call.err = ErrExit

\* the places of the caller's Stdout options in the list of the call
StdoutAt == {i \in 1..Len(call.opts) : call.opts[i].kind = "Stdout"}
\* the caller's options before place i apply without error
AppliesUpTo(i) ==
    applyOptions(applyDefaultOptions(call.pre, environ).c,
                 SubSeq(call.opts, 1, i - 1)).err = NoErr

EntriesOf(env, key) == {n \in 1..Len(env) : KeyOf(env[n]) = key}

\* the key an option was built with: a key holds no "=", and the captured
\* variable is the key followed by one "=" for every call of the closure
BuiltKey(opt) == KeyOf(opt.a.key)

\* C9 as claimed: after a call whose options apply Setenv(K, v1) and later
\* Setenv(K, v2), v2 being the last value set for K, the environment of the
\* Cmd holds exactly one entry whose key is K, and it is "K=v2".
C9_AsClaimed ==
    (pc = "returned" /\ call.op \in Starters \cup {"System"})
        => \A i, j \in Applied(call.ev, "Setenv") :
              (/\ i < j
               /\ BuiltKey(call.ev[i].opt) = BuiltKey(call.ev[j].opt)
               /\ \A n \in Applied(call.ev, "Setenv") :
                     BuiltKey(call.ev[n].opt) = BuiltKey(call.ev[j].opt) => n <= j)
                  => LET K == BuiltKey(call.ev[j].opt)
                         env == call.post.Env.s
                     IN  /\ ~call.post.Env.isNil
                         /\ Cardinality(EntriesOf(env, K)) = 1
                         /\ \A n \in EntriesOf(env, K) :
                               env[n] = Entry(K, call.ev[j].opt.a.val)

\* os.Stdin, os.Stdout, os.Stderr
OsOf(k) ==
    CASE k = "Stdin" -> OsStream(0)
      [] k = "Stdout" -> OsStream(1)
      [] k = "Stderr" -> OsStream(2)

\* C10 as claimed: System binds the child's streams to the caller's own, and
\* a stream option passed to System overrides that: the option list applies
\* without error and the stream is bound to the option's value.
C10_AsClaimed ==
    Returned({"System"})
        => /\ call.opts = <<>> => \A k \in StreamKinds : call.post[k] = OsOf(k)
           /\ (/\ Len(call.opts) = 1
               /\ call.opts[1].kind \in StreamKinds
               /\ call.opts[1].a.s # NilStream)
                 => /\ \A i \in EventsOf(call.ev, "opt") : call.ev[i].err = NoErr
                    /\ call.post[call.opts[1].kind] = call.opts[1].a.s

\* the option list the call hands to Start: the caller's, after the capture
\* option of Output or the three stream options of System
Handed ==
    CASE call.op = "Output" -> <<StdoutOpt(call.buf)>> \o call.opts
      [] call.op = "System" ->
            <<StdinOpt(OsStream(0)), StdoutOpt(OsStream(1)), StderrOpt(OsStream(2))>>
                \o call.opts
      [] OTHER -> call.opts

\* the events at which an option of the call failed
FailedAt == {n \in EventsOf(call.ev, "opt") : call.ev[n].err # NoErr}

\* the fields of a Cmd that options set
Config(c) ==
    [Stdin |-> c.Stdin, Stdout |-> c.Stdout, Stderr |-> c.Stderr, Dir |-> c.Dir,
     Env |-> c.Env, before |-> c.before, after |-> c.after]

\* C11: when an option of the list fails, the call ends there: the options
\* before it were applied in order without error, no option after it is
\* applied, the before-hook is not invoked, c.Cmd.Start() is not called, and
\* the call returns the error of that option.
C11_ShortCircuit ==
    pc = "returned" =>
        \A n \in FailedAt :
            /\ n = Len(call.ev)
            /\ \A m \in 2..n :
                  /\ call.ev[m].ev = "opt"
                  /\ call.ev[m].opt = Handed[m - 1]
                  /\ m < n => call.ev[m].err = NoErr
            /\ call.err = call.ev[n].err
            /\ EventsOf(call.ev, "before") = {}
            /\ EventsOf(call.ev, "Cmd.Start") = {}
            /\ call.post.Process = call.pre.Process
            /\ \A m \in n..Len(Handed) :
                  \/ Handed[m].kind \notin {"Dir", "Setenv"}
                  \/ /\ Handed[m].kind = "Dir"
                     /\ call.post.Dir # call.pre.Dir => \E k \in 1..(n - 2) : Handed[k].kind = "Dir"
                  \/ /\ Handed[m].kind = "Setenv"
                     /\ call.post.Env.s # (IF call.pre.Env.isNil THEN environ ELSE call.pre.Env.s)
                            => \E k \in 1..(n - 2) : Handed[k].kind = "Setenv"

\* the first of two options finds the before-hook registered and fails; the
\* Dir option after it is not applied and the hook is not invoked
C11_Witness ==
    /\ Returned({"Start"})
    /\ call.pre.before = "f"
    /\ Len(call.opts) = 2
    /\ call.opts[1].kind = "BeforeFunc"
    /\ call.opts[2].kind = "Dir"
    /\ call.err = ErrBeforeSet
    /\ cmd.Dir = ""
    /\ EventsOf(call.ev, "before") = {}

\* C12: a call whose Start succeeds goes through the default options, then
\* the options of the list one by one in the order of the list, then the
\* before-hook if one is registered by then, then c.Cmd.Start(), and through
\* each of them once; and in no call is c.Cmd.Start() reached with a hook
\* registered unless the hook was called right before and returned nil.
C12_StartOrder ==
    /\ (pc = "returned" /\ Created(call.ev)) =>
          LET n == Len(Handed)
              hook == call.post.before # NilHook
              s == n + (IF hook THEN 3 ELSE 2)
          IN  /\ Len(call.ev) >= s
              /\ call.ev[1] = Event("default", NoOpt, NilHook, NoErr)
              /\ \A k \in 1..n : call.ev[k + 1] = Event("opt", Handed[k], NilHook, NoErr)
              /\ hook => call.ev[n + 2] = Event("before", NoOpt, call.post.before, NoErr)
              /\ call.ev[s] = Event("Cmd.Start", NoOpt, NilHook, NoErr)
              /\ \A m \in (s + 1)..Len(call.ev) : call.ev[m].ev \in {"Cmd.Wait", "after"}
              /\ ~call.post.Env.isNil
    /\ pc = "returned" =>
          \A s \in EventsOf(call.ev, "Cmd.Start") :
              call.post.before # NilHook
                  => /\ s > 1
                     /\ call.ev[s - 1] = Event("before", NoOpt, call.post.before, NoErr)

\* the list registers the hook and then sets the directory; the hook is
\* called after both and the child is created after the hook
C12_Witness ==
    /\ Returned({"Start"})
    /\ Len(call.opts) = 2
    /\ call.opts[1].kind = "BeforeFunc"
    /\ call.opts[2].kind = "Dir"
    /\ Len(call.ev) = 5
    /\ call.ev[4] = Event("before", NoOpt, "f", NoErr)
    /\ call.ev[5] = Event("Cmd.Start", NoOpt, NilHook, NoErr)
    /\ cmd.Dir = "/var"
    /\ cmd.Process = "running"

\* the error of the event of kind k in the call, nil if there is none
Answer(k) ==
    IF EventsOf(call.ev, k) = {} THEN NoErr
    ELSE call.ev[Least(EventsOf(call.ev, k))].err

\* what the hooks and the platform answered during the call
CallWorld ==
    [before |-> Answer("before"),
     spawn |-> IF Answer("Cmd.Start") = ErrSpawn THEN ErrSpawn ELSE NoErr,
     wait |-> IF Answer("Cmd.Wait") = ErrExit THEN ErrExit ELSE NoErr,
     after |-> Answer("after"),
     out |-> call.out]

\* C13: Run is Start followed by Wait.  If Start fails, for whatever reason,
\* Run returns the error of Start and leaves the Cmd as Start left it: Wait
\* is not called, so there is no platform wait, the waited flag keeps its
\* value and the after-hook is not invoked.  If Start succeeds, Run returns
\* what Wait returns on the Cmd Start left.
C13_RunIsStartThenWait ==
    Returned({"Run"}) =>
        LET s == Start(call.pre, call.opts, environ, CallWorld)
        IN  IF ~Created(call.ev)
            THEN /\ s.err # NoErr
                 /\ call.err = s.err
                 /\ call.ev = s.ev
                 /\ call.post = s.c
                 /\ EventsOf(call.ev, "Cmd.Wait") = {}
                 /\ EventsOf(call.ev, "after") = {}
                 /\ call.post.waited = call.pre.waited
                 /\ hist.waitCalls = call.prehist.waitCalls
                 /\ hist.afterCalls = call.prehist.afterCalls
            ELSE LET w == Wait(s.c, CallWorld)
                 IN  /\ s.err = NoErr
                     /\ call.err = w.err
                     /\ call.ev = s.ev \o w.ev
                     /\ call.post = w.c
                     /\ call.post.waited

\* an after-hook is registered, the platform fails to create the child, and
\* Run returns that error without calling Wait
C13_Witness ==
    /\ Returned({"Run"})
    /\ call.pre.after = "g"
    /\ ~call.pre.waited
    /\ call.err = ErrSpawn
    /\ ~cmd.waited
    /\ hist.afterCalls = 0

\* C14: the first call of Wait on a Cmd with an after-hook registered calls
\* the hook once, after c.Cmd.Wait() has returned, whatever c.Cmd.Wait()
\* returned; no later call invokes it, so that over the life of the Cmd the
\* after-hook is invoked at most once.
C14_AfterHookOnce ==
    /\ (pc = "returned" /\ WaitCalled /\ call.prehist.waitCalls = 0
           /\ call.post.after # NilHook)
          => /\ Count(call.ev, "after") = 1
             /\ Count(call.ev, "Cmd.Wait") = 1
             /\ \A i \in EventsOf(call.ev, "Cmd.Wait") : \A j \in EventsOf(call.ev, "after") :
                   /\ j = i + 1
                   /\ j = Len(call.ev)
                   /\ call.ev[j].h = call.post.after
             /\ call.op # "System" => hist.afterCalls = 1
    /\ (pc = "returned" /\ call.prehist.waitCalls >= 1)
          => EventsOf(call.ev, "after") = {}
    /\ hist.afterCalls <= 1

\* the child exits with an error and the hook is called all the same
C14_Witness ==
    /\ Returned({"Wait"})
    /\ call.pre.Process = "running"
    /\ call.ev = <<Event("Cmd.Wait", NoOpt, NilHook, ErrExit),
                   Event("after", NoOpt, "g", NoErr)>>
    /\ call.err = ErrExit
    /\ hist.afterCalls = 1

\* C15 as claimed: Wait on a Cmd that did not come from Command returns the
\* not-initalised error as a value: it does not panic, does not mark the Cmd
\* waited and does not call c.Cmd.Wait().
C15_AsClaimed ==
    (Returned({"Wait"}) /\ ~call.pre.initalised)
        => /\ call.err = ErrNotInitalised
           /\ call.err # PanicNilDeref
           /\ EventsOf(call.ev, "Cmd.Wait") = {}
           /\ call.post.waited = call.pre.waited

\* C16 as claimed: whenever the after-hook is invoked, the child process of
\* the Cmd was created before, by this call or an earlier one, and has exited.
C16_AsClaimed ==
    pc = "returned" =>
        \A j \in EventsOf(call.ev, "after") :
            /\ call.prehist.created >= 1 \/ Created(call.ev)
            /\ call.post.Process = "exited"

\* C17 as claimed: once a Start has created the child, no later Start, Run or
\* Output changes the directory, the environment, the streams or the hooks of
\* the Cmd, and none invokes the before-hook.
C17_AsClaimed ==
    (Returned(Starters) /\ call.prehist.created >= 1)
        => /\ Config(call.post) = Config(call.pre)
           /\ EventsOf(call.ev, "before") = {}

\* env after the Setenv options applied among the events of ev from n on
RECURSIVE EnvAfter(_, _, _)
EnvAfter(env, ev, n) ==
    IF n > Len(ev) THEN env
    ELSE IF ev[n].ev = "opt" /\ ev[n].opt.kind = "Setenv" /\ ev[n].err = NoErr
    THEN EnvAfter(SetenvFrom(env, ev[n].opt.a.key \o <<"=">>, ev[n].opt.a.val, 1), ev, n + 1)
    ELSE EnvAfter(env, ev, n + 1)

\* C18: the default pass of a Start comes before every option of the call,
\* copies the caller's environment if the Env of the Cmd is unset, and
\* otherwise leaves it as the earlier calls left it, their Setenv changes
\* included: after the call Env is that environment with the Setenv options
\* of this call applied to it, and a call without Setenv leaves a set Env
\* unchanged.
C18_DefaultOnce ==
    (pc = "returned" /\ call.op \in Starters \cup {"System"} /\ call.pre.initalised)
        => LET base == IF call.pre.Env.isNil THEN environ ELSE call.pre.Env.s
           IN  /\ call.ev # <<>>
               /\ EventsOf(call.ev, "default") = {1}
               /\ call.post.Env = Slice(EnvAfter(base, call.ev, 1))
               /\ (~call.pre.Env.isNil /\ Applied(call.ev, "Setenv") = {})
                     => call.post.Env = call.pre.Env

\* a Start is retried on a Cmd whose environment an earlier Start changed
\* with Setenv; the environment stays as that Start left it
C18_Witness ==
    /\ Returned({"Start"})
    /\ call.prehist.created = 0
    /\ ~call.pre.Env.isNil
    /\ call.pre.Env.s # environ
    /\ Applied(call.ev, "Setenv") = {}
    /\ call.err = NoErr
    /\ cmd.Env = call.pre.Env

\* C19 as claimed: every application of an option Setenv(key, val) succeeds
\* and changes one place of the environment: the first entry that starts
\* with "key=" becomes "key=val", or, if there is none, "key=val" is added at
\* the end; all other entries stay as and where they are.
C19_AsClaimed ==
    (pc = "returned" /\ call.op \in Starters \cup {"System"} /\ call.pre.initalised)
        => \A n \in Applied(call.ev, "Setenv") :
              LET base == IF call.pre.Env.isNil THEN environ ELSE call.pre.Env.s
                  before == EnvAfter(base, SubSeq(call.ev, 1, n - 1), 1)
                  after == EnvAfter(base, SubSeq(call.ev, 1, n), 1)
                  key == BuiltKey(call.ev[n].opt)
                  e == Entry(key, call.ev[n].opt.a.val)
                  hits == {i \in 1..Len(before) : HasPrefix(before[i], key \o <<"=">>)}
              IN  /\ call.ev[n].err = NoErr
                  /\ after = IF hits # {} THEN [before EXCEPT ![Least(hits)] = e]
                             ELSE Append(before, e)

\* the options of the call that were applied without error, in order
AppliedOpts ==
    SubSeq(Handed, 1, Cardinality({n \in EventsOf(call.ev, "opt") : call.ev[n].err = NoErr}))

\* every option the call applied keeps its effect, whatever the call returned
NotRolledBack ==
    (pc = "returned" /\ call.op \in Starters \cup {"System"} /\ call.pre.initalised)
        => Config(call.post)
              = Config(applyOptions(applyDefaultOptions(call.pre, environ).c, AppliedOpts).c)

\* C20: a failing Start, Run or Output does not undo the options it applied.
\* After an Output on a Cmd from Command, successful or not, Stdout is bound:
\* to the buffer of that call if Stdout was not set before it, and to what it
\* was set to otherwise; so every later Output on the Cmd finds Stdout set
\* at its capture option and returns the Stdout-already-set error with no
\* output, without applying an option of the caller, calling the before-hook
\* or reaching c.Cmd.Start() and its already-started check.
C20_NoRollback ==
    /\ NotRolledBack
    /\ (Returned({"Output"}) /\ call.pre.initalised)
          => /\ call.post.Stdout # NilStream
             /\ call.post.Stdout =
                   IF call.pre.Stdout = NilStream THEN call.buf ELSE call.pre.Stdout
             /\ cmd.Stdout = call.post.Stdout
    /\ (Returned({"Output"}) /\ call.pre.initalised /\ call.prehist.output)
          => /\ call.err = ErrStdoutSet
             /\ call.out = ""
             /\ call.ev = <<Event("default", NoOpt, NilHook, NoErr),
                            Event("opt", StdoutOpt(call.buf), NilHook, ErrStdoutSet)>>

\* C20 as claimed: after any Output call on a Cmd, Stdout is bound to the
\* buffer of that call, and every later Output returns the
\* Stdout-already-set error with no output and without reaching c.Cmd.Start()
C20_AsClaimed ==
    /\ NotRolledBack
    /\ Returned({"Output"}) => call.post.Stdout = call.buf
    /\ (Returned({"Output"}) /\ call.prehist.output)
          => /\ call.err = ErrStdoutSet
             /\ call.out = ""
             /\ EventsOf(call.ev, "Cmd.Start") = {}

\* an Output ran the child to its end; the next Output, with an option of
\* the caller, fails at its capture option on the exited Cmd
C20_Witness ==
    /\ Returned({"Output"})
    /\ call.prehist.output
    /\ call.pre.Process = "exited"
    /\ call.pre.Stdout = Buffer(1)
    /\ call.opts # <<>>
    /\ call.err = ErrStdoutSet
    /\ call.out = ""
    /\ cmd.Stdout = Buffer(1)

====
